---- MODULE Spec2Model ----
(***************************************************************************)
(* State-machine model of src/model/keystore.ts: the lazily created vault  *)
(* handle (getCCKey), address discovery (restorePlatformAddresses,         *)
(* restoreAssetAddresses) and address issuance (createPlatformAddress,     *)
(* createAssetAddress).  Every async function is cut at its awaits: one    *)
(* action per synchronous segment.  And of redux/chain/chainReducer.ts:    *)
(* the reducer as a function of the state and the action, applied by one   *)
(* dispatch step.                                                          *)
(***************************************************************************)
EXTENDS Integers, Sequences, FiniteSets, TLC

\* ------------------------------------------------------------------ bounds

\* Calls started in one behaviour.
MaxCalls == 2

\* Actions dispatched to the chain reducer in one behaviour.
MaxDispatch == 3

\* ------------------------------------------------------- program constants

restoringCheckingRange == 10

platformAddressPath == "m/44'/3276/0'/0/"

assetAddressPath == "m/44'/3276/1'/0/"

\* `let lastValid...PathIndex: number | undefined | null`, never assigned
\* before the loop: the value undefined.
Undefined == -1

\* `let globalCCKey: CCKey`, unassigned: no instance.  Instances are numbered
\* from 1 in the order CCKey.create was invoked.
NoInstance == 0

Platform == "Platform"

Asset == "Asset"

AddressType == {Platform, Asset}

\* The network a caller names (the test network's id); it only flows into the
\* encoded address value.
NetworkId == {"tc"}

\* What a ledger probe answers: the account's nonce (platform), the number of
\* aggregated UTXOs (asset).
ProbeAnswers == {0, 1}

\* The callers of the single-threaded specification and of the overlapping one.
MainProcs == {"p1"}

AllProcs == {"p1", "p2"}

\* ------------------------------------------------------------ pure helpers

\* The decimal digits, by value + 1.
Digits == <<"0", "1", "2", "3", "4", "5", "6", "7", "8", "9">>

RECURSIVE DecimalString(_)
\* Number-to-string conversion of `prefix + n` and of `${n}`.
DecimalString(n) ==
    IF n < 10 THEN Digits[n + 1]
    ELSE DecimalString(n \div 10) \o Digits[(n % 10) + 1]

\* PathPrefix with the asset role deriving under the platform prefix.
PathPrefixShared(role) == platformAddressPath

PathPrefix(role) ==
    IF role = Platform THEN platformAddressPath ELSE assetAddressPath

\* platformAddressPath + currentPath, assetAddressPath + currentPath
PathFor(role, index) == PathPrefix(role) \o DecimalString(index)

\* getPassphrase()! as discovery passes it; issuance passes no passphrase.
StoredPassphrase == "stored"

NoPassphrase == "omitted"

\* ccKey.hdwseed.getPublicKeyFromSeed: a deterministic function of the path and
\* the passphrase (the seed is the vault's first seed throughout).
getPublicKeyFromSeed(path, passphrase) ==
    [path |-> path, passphrase |-> passphrase]

blake160(pubkey) == [blake160 |-> pubkey]

\* PlatformAddress.fromAccountId(key, {networkId}).value and
\* AssetTransferAddress.fromTypeAndPayload(1, key, {networkId}).value
AddressValue(role, key, networkId) ==
    [encoding |-> role, payload |-> key, networkId |-> networkId]

\* `P-address ${i}` and `A-address ${i}`
AddressName(role, index) ==
    (IF role = Platform THEN "P-address " ELSE "A-address ")
        \o DecimalString(index)

WalletAddress(role, index, key, networkId) ==
    [name |-> AddressName(role, index),
     address |-> AddressValue(role, key, networkId),
     type |-> role]

StoredKey(type, index, key) ==
    [pathIndex |-> index, type |-> type, key |-> key]

\* The key discovery derives at an index.
RestoredKeyAt(role, index) ==
    blake160(getPublicKeyFromSeed(PathFor(role, index), StoredPassphrase))

\* account.nonce.value.toString(10) !== "0"  /  aggsUTXO.length !== 0
ShowsUsage(role, answer) == answer # 0

\* `!lastValidPlatfromPathIndex`: true of undefined and of 0.
Falsy(v) == v = Undefined \/ v = 0

\* Array.prototype.slice(0, end) for 0 <= end.
Slice(s, end) == SubSeq(s, 1, IF end < Len(s) THEN end ELSE Len(s))

\* Truncate with the candidates kept when nothing was used.
TruncateKeepingUnused(list, lastValid) ==
    IF Falsy(lastValid) THEN list ELSE Slice(list, lastValid + 1)

\* The truncation after the scan, for the address list and the key list alike.
Truncate(list, lastValid) ==
    IF Falsy(lastValid) THEN <<>> ELSE Slice(list, lastValid + 1)

\* _.last(array)
Last(s) == s[Len(s)]

\* The local storage entry of a role that was never saved: getPlatformKeys()
\* and getAssetKeys() return null.
NullEntry == [present |-> FALSE, keys |-> <<>>]

SavedEntry(list) == [present |-> TRUE, keys |-> list]

\* `savedKeys && savedKeys.length > 0`
NonEmpty(entry) == entry.present /\ Len(entry.keys) > 0

\* BasePathIndex with the first index of an empty Key Index moved down by one.
BasePathIndexStartingBelow(entry) ==
    IF NonEmpty(entry) THEN Last(entry.keys).pathIndex + 1 ELSE -1

\* BasePathIndex reading the first stored record instead of the last.
BasePathIndexFromHead(entry) ==
    IF NonEmpty(entry) THEN entry.keys[1].pathIndex + 1 ELSE 0

\* `pathIndex` of createPlatformAddress / createAssetAddress.
BasePathIndex(entry) ==
    IF NonEmpty(entry) THEN Last(entry.keys).pathIndex + 1 ELSE 0

NewPathIndex(entry) == BasePathIndex(entry) + 1

\* The index whose path issuance derives the key from: newPathIndex for the
\* platform role, pathIndex for the asset role.
IssuanceDerivationIndex(role, entry) ==
    IF role = Platform THEN NewPathIndex(entry) ELSE BasePathIndex(entry)

\* The `type` issuance writes into the stored record: AddressType.Platform in
\* both functions.
IssuedKeyType(role) == Platform

IssuedKeyAt(role, entry) ==
    blake160(getPublicKeyFromSeed(
        PathFor(role, IssuanceDerivationIndex(role, entry)), NoPassphrase))

\* IssuedKeys with the new record put in front of the saved ones.
IssuedKeysInFront(role, entry) ==
    LET record == StoredKey(IssuedKeyType(role), NewPathIndex(entry),
                            IssuedKeyAt(role, entry))
    IN  IF NonEmpty(entry) THEN <<record>> \o entry.keys ELSE <<record>>

\* The list issuance saves: [...savedKeys, record], or [record].
IssuedKeys(role, entry) ==
    LET record == StoredKey(IssuedKeyType(role), NewPathIndex(entry),
                            IssuedKeyAt(role, entry))
    IN  IF NonEmpty(entry) THEN Append(entry.keys, record) ELSE <<record>>

\* ------------------------------------------------------------ chainReducer

\* The addresses and asset types actions carry (no "-" in either), what a
\* Cache/Update action brings (a transaction list, a count, a block number)
\* and what `+new Date()` reads.
Address == {"tcaq1", "tcaq2"}

AssetType == {"00a1"}

Payload == {1, 2}

Times == {1, 2}

\* `${address}-${assetType.value}`
getIdByAddressAssetType(address, assetType) == address \o "-" \o assetType

Ids == {getIdByAddressAssetType(a, t) : a \in Address, t \in AssetType}

\* An entry of a map, or bestBlockNumber: {data?, isFetching, updatedAt?}.
\* NoEntry is undefined: what reading a key that is not in a map gives, and
\* bestBlockNumber before it is set.
NoEntry ==
    [defined |-> FALSE, data |-> Undefined, isFetching |-> FALSE,
     updatedAt |-> Undefined]

\* {}: the map with no key.
EmptyMap == [k \in {} |-> NoEntry]

\* map[key]
Lookup(map, key) == IF key \in DOMAIN map THEN map[key] ELSE NoEntry

\* With without the spread of the map: {[key]: entry}.
WithOnly(map, key, entry) == [k \in {key} |-> entry]

\* {...map, [key]: entry}
With(map, key, entry) ==
    [k \in DOMAIN map \cup {key} |-> IF k = key THEN entry ELSE map[k]]

chainInitState ==
    [pendingTxList |-> EmptyMap,
     txList |-> EmptyMap,
     countOfTxList |-> EmptyMap,
     bestBlockNumber |-> NoEntry,
     txListById |-> EmptyMap,
     countOfTxListById |-> EmptyMap,
     pendingTxListById |-> EmptyMap]

\* {data: ..., updatedAt: +new Date(), isFetching: false}
Cached(data, now) ==
    [defined |-> TRUE, data |-> data, isFetching |-> FALSE, updatedAt |-> now]

\* Fetching with the entry's data and updatedAt dropped.
FetchingAfresh(entry) ==
    [defined |-> TRUE, data |-> Undefined, isFetching |-> TRUE,
     updatedAt |-> Undefined]

\* {...entry, isFetching: true}; the spread of undefined is {}.
Fetching(entry) == [entry EXCEPT !.defined = TRUE, !.isFetching = TRUE]

CacheTypes ==
    {"CachePendingTxList", "UpdateBestBlockNumber", "CacheTxList",
     "CacheCountOfTxList", "CacheCountOfTxListById", "CacheTxListById"}

SetFetchingTypes ==
    {"SetFetchingPendingTxList", "SetFetchingBestBlockNumber",
     "SetFetchingTxList", "SetFetchingCountOfTxList",
     "SetFetchingCountOfTxListById", "SetFetchingTxListById"}

\* The types the switch handles, and one it does not.
ActionType == CacheTypes \cup SetFetchingTypes \cup {"Other"}

\* The actions dispatched: action.data carries the address, for the ById
\* types the assetType, and for the Cache/Update types the payload.
Action ==
    {a \in [type : ActionType, address : Address, assetType : AssetType,
            payload : Payload \cup {Undefined}] :
        a.type \in CacheTypes <=> a.payload # Undefined}

\* chainReducer(state, action), with `now` what +new Date() reads.
chainReducer(state, action, now) ==
    LET address == action.address
        id == getIdByAddressAssetType(action.address, action.assetType)
    IN  CASE action.type = "CachePendingTxList" ->
                [state EXCEPT !.pendingTxList =
                    With(@, address, Cached(action.payload, now))]
          [] action.type = "SetFetchingPendingTxList" ->
                [state EXCEPT !.pendingTxList =
                    With(@, address, Fetching(Lookup(@, address)))]
          [] action.type = "UpdateBestBlockNumber" ->
                [state EXCEPT !.bestBlockNumber = Cached(action.payload, now)]
          [] action.type = "SetFetchingBestBlockNumber" ->
                [state EXCEPT !.bestBlockNumber =
                                  Fetching(state.bestBlockNumber)]
          [] action.type = "CacheTxList" ->
                [state EXCEPT !.txList =
                    With(@, address, Cached(action.payload, now))]
          [] action.type = "SetFetchingTxList" ->
                [state EXCEPT !.txList =
                    With(@, address, Fetching(Lookup(@, address)))]
          [] action.type = "SetFetchingCountOfTxList" ->
                [state EXCEPT !.countOfTxList =
                    With(@, address, Fetching(Lookup(@, address)))]
          [] action.type = "SetFetchingCountOfTxListById" ->
                [state EXCEPT !.countOfTxListById =
                    With(@, id, Fetching(Lookup(@, id)))]
          [] action.type = "CacheCountOfTxList" ->
                [state EXCEPT !.countOfTxList =
                    With(@, address, Cached(action.payload, now))]
          [] action.type = "CacheCountOfTxListById" ->
                [state EXCEPT !.countOfTxListById =
                    With(@, id, Cached(action.payload, now))]
          [] action.type = "SetFetchingTxListById" ->
                [state EXCEPT !.txListById =
                    With(@, id, Fetching(Lookup(@, id)))]
          [] action.type = "CacheTxListById" ->
                [state EXCEPT !.txListById =
                    With(@, id, Cached(action.payload, now))]
          [] OTHER -> state

\* ------------------------------------------------------ restore-wallet form

\* Text is a sequence of characters, so that its length and its words are
\* computed from the characters as String.length and String.match do.
Whitespace == {" ", "\n"}

Word == <<"a", "b">>

\* n words joined by the separator `sep`.
RECURSIVE Phrase(_, _)
Phrase(n, sep) ==
    IF n = 0 THEN <<>>
    ELSE IF n = 1 THEN Word
    ELSE Word \o sep \o Phrase(n - 1, sep)

\* What is typed into the three inputs.
Texts ==
    {<<>>,
     <<"a", "b", "c">>,
     <<"p", "a", "s", "s", "w", "o", "r", "d">>,
     <<" ", " ", " ", " ", " ", " ", " ", " ">>,
     Phrase(11, <<" ">>),
     Phrase(12, <<" ">>),
     <<"\n">> \o Phrase(12, <<" ", " ">>) \o <<" ">>,
     Phrase(13, <<" ">>)}

\* The length of the longest prefix of `text` without whitespace.
RECURSIVE RunLength(_)
RunLength(text) ==
    IF text = <<>> \/ Head(text) \in Whitespace THEN 0
    ELSE 1 + RunLength(Tail(text))

\* The matches of /\S+/g in `text`: its maximal runs of non-whitespace.
RECURSIVE Runs(_)
Runs(text) ==
    IF text = <<>> THEN <<>>
    ELSE IF Head(text) \in Whitespace THEN Runs(Tail(text))
    ELSE LET n == RunLength(text)
         IN  <<SubSeq(text, 1, n)>> \o Runs(SubSeq(text, n + 1, Len(text)))

\* What String.match returns when nothing matches.
NullMatch == [null |-> TRUE, matches |-> <<>>]

\* text.match(/\S+/g): the matches, or null when there is none.
Match(text) ==
    IF Runs(text) = <<>> THEN NullMatch
    ELSE [null |-> FALSE, matches |-> Runs(text)]

\* The component's state after its constructor.
formInitState ==
    [secretPhrase |-> <<>>,
     passphrase |-> <<>>,
     passphraseConfirm |-> <<>>,
     isPassphraseValid |-> "undefined",
     passphraseError |-> "undefined",
     isPassphraseConfirmValid |-> "undefined",
     passphraseConfirmError |-> "undefined"]

\* checkPassphraseValid: what it returns and the state it sets.
PassphraseValid(state) == ~(Len(state.passphrase) < 8)

AfterPassphraseCheck(state) ==
    IF Len(state.passphrase) < 8
    THEN [state EXCEPT !.passphraseError = "Minimum length is 8 characters",
                       !.isPassphraseValid = "false"]
    ELSE [state EXCEPT !.passphraseError = "undefined",
                       !.isPassphraseValid = "true"]

\* checkPassphraseConfirm: what it returns and the state it sets.
PassphraseConfirmed(state) == ~(state.passphrase # state.passphraseConfirm)

AfterConfirmCheck(state) ==
    IF state.passphrase # state.passphraseConfirm
    THEN [state EXCEPT !.passphraseConfirmError = "Password does not match!",
                       !.isPassphraseConfirmValid = "false"]
    ELSE [state EXCEPT !.passphraseConfirmError = "undefined",
                       !.isPassphraseConfirmValid = "true"]

\* The text handleSubmit splits into words.
SplitText(state) == state.passphrase

\* Where handleSubmit returns: at the first check that fails, or at its end.
SubmitOutcome(state) ==
    LET splitPassphrases == Match(SplitText(state))
    IN  IF ~PassphraseValid(state) THEN "passphraseInvalid"
        ELSE IF ~PassphraseConfirmed(state) THEN "confirmMismatch"
        ELSE IF splitPassphrases.null \/ Len(splitPassphrases.matches) # 12
             THEN "notTwelveWords"
        ELSE "passed"

\* The state handleSubmit leaves: that of the checks it ran.
AfterSubmit(state) ==
    IF ~PassphraseValid(state) THEN AfterPassphraseCheck(state)
    ELSE AfterConfirmCheck(AfterPassphraseCheck(state))

\* ------------------------------------------------------------------- state

VARIABLES
    globalCCKey,   \* the module-level vault handle, NoInstance until assigned
    created,       \* how many times CCKey.create has been invoked
    storage,       \* local storage: role -> entry (the persisted Key Index)
    ledger,        \* the ledger's answers so far for one role, by index
    call,          \* per caller: the running (or last returned) call's frame
    lastRun,       \* the last returned discovery against the current ledger
    lastIssued,    \* role -> pathIndex of the last returned issuance, or Undefined
    ncalls,        \* calls started so far
    tracked,       \* whether the ledger is followed: TRUE, it holds one usage
                   \* pattern between LedgerChanges and ledger, evidence and
                   \* lastRun record it; FALSE, it may change at any moment
                   \* (every probe answer is open) and nothing is recorded
    chain,         \* the redux store's chain state
    lastAddressed, \* per map and key: the kind of the last action addressed
                   \* to it, and the payload and time of its last Cache/Update
    dispatched,    \* actions dispatched so far
    form,          \* the RestoreWallet component's state
    submitted      \* where the last event, if a submit, returned; else "none"

keystoreVars ==
    <<globalCCKey, created, storage, ledger, call, lastRun, lastIssued, ncalls,
      tracked>>

chainVars == <<chain, lastAddressed, dispatched>>

formVars == <<form, submitted>>

vars == <<keystoreVars, chainVars, formVars>>

\* The maps keyed by address and those keyed by id.
AddressMaps == {"pendingTxList", "txList", "countOfTxList"}

IdMaps == {"pendingTxListById", "txListById", "countOfTxListById"}

\* Every place an entry can be: a map and a key in it, or bestBlockNumber.
Slots ==
    (AddressMaps \X Address) \cup (IdMaps \X Ids)
        \cup {<<"bestBlockNumber", "">>}

NotAddressed == [last |-> "none", data |-> Undefined, updatedAt |-> Undefined]

\* The store before any action: the reducer's default state.
ChainInit ==
    /\ chain = chainInitState
    /\ lastAddressed = [slot \in {} |-> NotAddressed]
    /\ dispatched = 0

\* The form as constructed, nothing submitted.
FormInit ==
    /\ form = formInitState
    /\ submitted = "none"

NoRun ==
    [valid |-> FALSE, role |-> Platform, networkId |-> "tc", evidence |-> {},
     retValue |-> <<>>, retKeys |-> <<>>, overwrote |-> FALSE]

\* A caller's frame before any call.
NoCall ==
    [op |-> "none", pc |-> "idle", role |-> Platform, networkId |-> "tc",
     ccKey |-> NoInstance, pending |-> NoInstance,
     currentPath |-> 0, lastValid |-> Undefined,
     addresses |-> <<>>, keys |-> <<>>, evidence |-> {},
     probes |-> <<>>, inflight |-> {},
     savedKeys |-> NullEntry, replaced |-> NullEntry, retValue |-> <<>>, retKeys |-> <<>>,
     error |-> "none",
     before |-> [r \in AddressType |-> NullEntry]]

Init ==
    /\ globalCCKey = NoInstance
    /\ created = 0
    /\ storage = [r \in AddressType |-> NullEntry]
    /\ ledger = [role |-> Platform, answers |-> <<>>]
    /\ call = [p \in AllProcs |-> NoCall]
    /\ lastRun = NoRun
    /\ lastIssued = [r \in AddressType |-> Undefined]
    /\ ncalls = 0
    /\ tracked = TRUE
    /\ ChainInit
    /\ FormInit

\* ----------------------------------------------------------- frame helpers

\* A vault derivation or a ledger probe a discovery has invoked for an index
\* and is awaiting.
Request(kind, index) == [kind |-> kind, index |-> index]

Frame(p) == call[p]

SetFrame(p, f) == call' = [call EXCEPT ![p] = f]

\* A frame that belongs to a discovery call not yet handed back to its caller.
IsRestore(f) == f.op = "restore" /\ f.pc # "idle"

\* The used indices a discovery call has seen so far.
SeenUsage(role, evidence, index, answer) ==
    IF tracked /\ ShowsUsage(role, answer)
    THEN evidence \cup {index} ELSE evidence

\* The ledger is one fixed usage pattern between two LedgerChanges: the first
\* probe of an index fixes its answer, later probes of that index repeat it.
LedgerAnswers(role, index, answer) ==
    IF ~tracked THEN UNCHANGED ledger
    ELSE /\ ledger.role = role
         /\ index <= Len(ledger.answers)
         /\ IF index < Len(ledger.answers)
            THEN answer = ledger.answers[index + 1] /\ UNCHANGED ledger
            ELSE ledger' = [ledger EXCEPT !.answers = Append(@, answer)]

\* getCCKey, lines 27-28, up to its await: the cached handle, or one more
\* CCKey.create invoked and awaited.
EnterGetCCKey(p, f) ==
    IF globalCCKey = NoInstance
    THEN /\ created' = created + 1
         /\ SetFrame(p, [f EXCEPT !.pending = created + 1, !.pc = "creating"])
    ELSE /\ UNCHANGED created
         /\ SetFrame(p, [f EXCEPT !.ccKey = globalCCKey,
                                  !.pc = IF f.op = "getCCKey" THEN "done"
                                         ELSE "seedHash"])

NewFrame(op, role, networkId) ==
    [NoCall EXCEPT !.op = op, !.role = role, !.networkId = networkId,
                   !.before = storage]

CanCall(p) == call[p].pc = "idle" /\ ncalls < MaxCalls

\* A throw unwinds the async function: its locals are gone, its promise
\* rejects with nothing returned.
Rejected(f, error) ==
    [NoCall EXCEPT !.op = f.op, !.role = f.role, !.networkId = f.networkId,
                   !.before = f.before, !.pc = "failed", !.error = error]

\* Caller p's call rejects with an error.  The answers seen so far are kept only while
\* there is a discovery to compare them with: another one still running, or
\* a returned one (lastRun).
Reject(p, error) ==
    /\ SetFrame(p, Rejected(Frame(p), error))
    /\ ledger' =
          IF /\ Frame(p).op = "restore"
             /\ ~lastRun.valid
             /\ \A q \in AllProcs \ {p} : ~IsRestore(call[q])
          THEN [ledger EXCEPT !.answers = <<>>]
          ELSE ledger

\* ----------------------------------------------------------------- getCCKey

\* A caller invokes the exported getCCKey.
getCCKey(p) ==
    /\ CanCall(p)
    /\ ncalls' = ncalls + 1
    /\ EnterGetCCKey(p, NewFrame("getCCKey", Platform, "tc"))
    /\ UNCHANGED <<globalCCKey, storage, ledger, lastRun, lastIssued, tracked>>

\* `globalCCKey = await CCKey.create(...)` resumes: the assignment, then
\* `return globalCCKey`.
CreateResolves(p) ==
    /\ Frame(p).pc = "creating"
    /\ globalCCKey' = Frame(p).pending
    /\ SetFrame(p, [Frame(p) EXCEPT !.ccKey = Frame(p).pending,
                                    !.pc = IF Frame(p).op = "getCCKey"
                                           THEN "done" ELSE "seedHash"])
    /\ UNCHANGED <<created, storage, ledger, lastRun, lastIssued, ncalls, tracked>>

\* CCKey.create rejects: getCCKey and its caller reject.
CreateRejects(p) ==
    /\ Frame(p).pc = "creating"
    /\ Reject(p, "vault")
    /\ UNCHANGED <<globalCCKey, created, storage, lastRun, lastIssued, ncalls, tracked>>

\* ---------------------------------------------------------------- discovery

\* restorePlatformAddresses(networkId) / restoreAssetAddresses(networkId) is
\* called: runs to the await of getCCKey.  The model follows the ledger's
\* answers for one role at a time: a discovery of the other role starts
\* against answers not yet seen.
RestoreAddresses(p, role, networkId) ==
    /\ CanCall(p)
    /\ tracked => \A q \in AllProcs : IsRestore(call[q]) => call[q].role = role
    /\ ncalls' = ncalls + 1
    /\ IF ledger.role = role \/ ~tracked
       THEN UNCHANGED <<ledger, lastRun>>
       ELSE /\ ledger' = [role |-> role, answers |-> <<>>]
            /\ lastRun' = NoRun
    /\ EnterGetCCKey(p, NewFrame("restore", role, networkId))
    /\ UNCHANGED <<globalCCKey, storage, lastIssued, tracked>>

\* getFirstSeedHash resolves; currentPath = 0 < restoringCheckingRange, so the
\* loop is entered and the first getPublicKeyFromSeed is invoked.
RestoreBegin(p) ==
    /\ Frame(p).pc = "seedHash" /\ Frame(p).op = "restore"
    /\ Frame(p).currentPath < restoringCheckingRange
    /\ SetFrame(p, [Frame(p) EXCEPT
           !.inflight = {Request("derive", Frame(p).currentPath)},
           !.pc = "derive"])
    /\ UNCHANGED <<globalCCKey, created, storage, ledger, lastRun, lastIssued, ncalls, tracked>>

\* getFirstSeedHash rejects (the vault cannot list its seeds).
SeedHashRejects(p) ==
    /\ Frame(p).pc = "seedHash"
    /\ Reject(p, "vault")
    /\ UNCHANGED <<globalCCKey, created, storage, lastRun, lastIssued, ncalls, tracked>>

\* RestoreDerived with the derivation of the next index started alongside the
\* probe instead of after it.
RestoreDerivedAhead(p) ==
    /\ Frame(p).pc = "derive" /\ Frame(p).op = "restore"
    /\ SetFrame(p, [Frame(p) EXCEPT
           !.probes = Append(@, Frame(p).currentPath),
           !.inflight = {Request("probe", Frame(p).currentPath),
                         Request("derive", Frame(p).currentPath + 1)},
           !.pc = "probe"])
    /\ UNCHANGED <<globalCCKey, created, storage, ledger, lastRun, lastIssued, ncalls, tracked>>

\* getPublicKeyFromSeed resolves: key and address are computed and the ledger
\* probe for the address is invoked.
RestoreDerived(p) ==
    /\ Frame(p).pc = "derive" /\ Frame(p).op = "restore"
    /\ SetFrame(p, [Frame(p) EXCEPT
           !.probes = Append(@, Frame(p).currentPath),
           !.inflight = {Request("probe", Frame(p).currentPath)},
           !.pc = "probe"])
    /\ UNCHANGED <<globalCCKey, created, storage, ledger, lastRun, lastIssued, ncalls, tracked>>

\* getPublicKeyFromSeed rejects.
RestoreDeriveRejects(p) ==
    /\ Frame(p).pc = "derive" /\ Frame(p).op = "restore"
    /\ Reject(p, "vault")
    /\ UNCHANGED <<globalCCKey, created, storage, lastRun, lastIssued, ncalls, tracked>>

\* NextLastValid remembering the first used index instead of the last.
NextLastValidFirstUsed(role, lastValid, currentPath, answer) ==
    IF ShowsUsage(role, answer) /\ lastValid = Undefined
    THEN currentPath ELSE lastValid

\* lastValid...PathIndex after the probe of currentPath answered.
NextLastValid(role, lastValid, currentPath, answer) ==
    IF ShowsUsage(role, answer) THEN currentPath ELSE lastValid

\* The frame after the rest of the loop body: the usage test, the two pushes
\* and currentPath += 1.
Probed(f, answer) ==
    LET key == RestoredKeyAt(f.role, f.currentPath)
    IN  [f EXCEPT
            !.lastValid = NextLastValid(f.role, @, f.currentPath, answer),
            !.evidence = SeenUsage(f.role, @, f.currentPath, answer),
            !.addresses = Append(@, WalletAddress(f.role, f.currentPath, key,
                                                  f.networkId)),
            !.keys = Append(@, StoredKey(f.role, f.currentPath, key)),
            !.inflight = {},
            !.currentPath = @ + 1]

\* The probe answers and the loop goes round: the next getPublicKeyFromSeed
\* is invoked.
RestoreProbed(p) ==
    /\ Frame(p).pc = "probe"
    /\ Frame(p).currentPath + 1 < restoringCheckingRange
    /\ \E answer \in ProbeAnswers :
          /\ LedgerAnswers(Frame(p).role, Frame(p).currentPath, answer)
          /\ LET f == Probed(Frame(p), answer)
             IN  SetFrame(p, [f EXCEPT
                     !.inflight = {Request("derive", f.currentPath)},
                     !.pc = "derive"])
    /\ UNCHANGED <<globalCCKey, created, storage, lastRun, lastIssued, ncalls, tracked>>

\* Truncated with the found keys added to the Key Index already saved.
TruncatedOntoSaved(f) ==
    [f EXCEPT !.retValue = Truncate(f.addresses, f.lastValid),
              !.retKeys = f.before[f.role].keys \o Truncate(f.keys, f.lastValid)]

\* retValue and retKeys of lines 108-116 / 245-253.
Truncated(f) ==
    [f EXCEPT !.retValue = Truncate(f.addresses, f.lastValid),
              !.retKeys = Truncate(f.keys, f.lastValid)]

\* savePlatformKeys(retKeys) / saveAssetKeys(retKeys)
SaveKeys(role, list) == storage' = [storage EXCEPT ![role] = SavedEntry(list)]

\* RestoreProbedLast with the scan also ending at the first unused index
\* after a used one.
RestoreProbedLastOrGap(p) ==
    /\ Frame(p).pc = "probe"
    /\ \E answer \in ProbeAnswers :
          /\ \/ Frame(p).currentPath + 1 >= restoringCheckingRange
             \/ answer = 0 /\ Frame(p).lastValid # Undefined
          /\ LedgerAnswers(Frame(p).role, Frame(p).currentPath, answer)
          /\ LET f == Truncated(Probed(Frame(p), answer))
             IN  /\ SaveKeys(f.role, f.retKeys)
                 /\ SetFrame(p, [f EXCEPT !.replaced = storage[f.role],
                                          !.pc = "done"])
    /\ UNCHANGED <<globalCCKey, created, lastRun, lastIssued, ncalls, tracked>>

\* RestoreProbedLast with the found keys saved under both roles.
RestoreProbedLastBothRoles(p) ==
    /\ Frame(p).pc = "probe"
    /\ Frame(p).currentPath + 1 >= restoringCheckingRange
    /\ \E answer \in ProbeAnswers :
          /\ LedgerAnswers(Frame(p).role, Frame(p).currentPath, answer)
          /\ LET f == Truncated(Probed(Frame(p), answer))
             IN  /\ storage' = [r \in AddressType |-> SavedEntry(f.retKeys)]
                 /\ SetFrame(p, [f EXCEPT !.replaced = storage[f.role],
                                          !.pc = "done"])
    /\ UNCHANGED <<globalCCKey, created, lastRun, lastIssued, ncalls, tracked>>

\* The probe of the last index answers: the loop ends, the lists are
\* truncated, the key list is saved and the address list returned.
RestoreProbedLast(p) ==
    /\ Frame(p).pc = "probe"
    /\ Frame(p).currentPath + 1 >= restoringCheckingRange
    /\ \E answer \in ProbeAnswers :
          /\ LedgerAnswers(Frame(p).role, Frame(p).currentPath, answer)
          /\ LET f == Truncated(Probed(Frame(p), answer))
             IN  /\ SaveKeys(f.role, f.retKeys)
                 /\ SetFrame(p, [f EXCEPT !.replaced = storage[f.role],
                                          !.pc = "done"])
    /\ UNCHANGED <<globalCCKey, created, lastRun, lastIssued, ncalls, tracked>>

\* The probe of the last index answers but the save throws (storage
\* unavailable): the call rejects after the scan, nothing written.
RestoreSaveThrows(p) ==
    /\ Frame(p).pc = "probe"
    /\ Frame(p).currentPath + 1 >= restoringCheckingRange
    /\ Reject(p, "storage")
    /\ UNCHANGED <<globalCCKey, created, storage, lastRun, lastIssued, ncalls, tracked>>

\* RestoreProbeRejects with the error caught and the index taken as unused.
RestoreProbeSwallowed(p) ==
    /\ Frame(p).pc = "probe"
    /\ LET f == [Probed(Frame(p), 0) EXCEPT !.error = "probe"]
       IN  IF f.currentPath < restoringCheckingRange
           THEN /\ SetFrame(p, [f EXCEPT
                       !.inflight = {Request("derive", f.currentPath)},
                       !.pc = "derive"])
                /\ UNCHANGED storage
           ELSE /\ SaveKeys(f.role, Truncated(f).retKeys)
                /\ SetFrame(p, [Truncated(f) EXCEPT !.pc = "done"])
    /\ UNCHANGED <<globalCCKey, created, ledger, lastRun, lastIssued, ncalls, tracked>>

\* getPlatformAccount / getAggsUTXOList rejects: the await throws out of the
\* loop and the call rejects.
RestoreProbeRejects(p) ==
    /\ Frame(p).pc = "probe"
    /\ Reject(p, "probe")
    /\ UNCHANGED <<globalCCKey, created, storage, lastRun, lastIssued, ncalls, tracked>>

\* ----------------------------------------------------------------- issuance

\* createPlatformAddress(networkId) / createAssetAddress(networkId) is called:
\* runs to the await of getCCKey.
CreateAddress(p, role, networkId) ==
    /\ CanCall(p)
    /\ ncalls' = ncalls + 1
    /\ EnterGetCCKey(p, NewFrame("create", role, networkId))
    /\ UNCHANGED <<globalCCKey, storage, ledger, lastRun, lastIssued, tracked>>

\* getPlatformKeys() / getAssetKeys()
GetKeys(role) == storage[role]

\* getFirstSeedHash resolves: the Key Index is read, the indices computed and
\* getPublicKeyFromSeed invoked.
CreateBegin(p) ==
    /\ Frame(p).pc = "seedHash" /\ Frame(p).op = "create"
    /\ SetFrame(p, [Frame(p) EXCEPT !.savedKeys = GetKeys(Frame(p).role),
                                    !.pc = "derive"])
    /\ UNCHANGED <<globalCCKey, created, storage, ledger, lastRun, lastIssued, ncalls, tracked>>

\* getFirstSeedHash resolves but reading the Key Index throws (storage
\* unavailable): the call rejects.
CreateLoadThrows(p) ==
    /\ Frame(p).pc = "seedHash" /\ Frame(p).op = "create"
    /\ Reject(p, "storage")
    /\ UNCHANGED <<globalCCKey, created, storage, lastRun, lastIssued, ncalls, tracked>>

\* CreateDerived with the Key Index read again when the record is saved, so
\* that the record is added to what the store holds at that moment.
CreateDerivedRereading(p) ==
    /\ Frame(p).pc = "derive" /\ Frame(p).op = "create"
    /\ LET f == Frame(p)
           list == IssuedKeys(f.role, GetKeys(f.role))
       IN  /\ SaveKeys(f.role, list)
           /\ SetFrame(p, [f EXCEPT
                  !.replaced = storage[f.role],
                  !.retKeys = list,
                  !.retValue = <<WalletAddress(f.role, NewPathIndex(f.savedKeys),
                                               Last(list).key, f.networkId)>>,
                  !.pc = "done"])
    /\ UNCHANGED <<globalCCKey, created, ledger, lastRun, lastIssued, ncalls, tracked>>

\* getPublicKeyFromSeed resolves: the extended list is saved and the new
\* address returned.
CreateDerived(p) ==
    /\ Frame(p).pc = "derive" /\ Frame(p).op = "create"
    /\ LET f == Frame(p)
           list == IssuedKeys(f.role, f.savedKeys)
       IN  /\ SaveKeys(f.role, list)
           /\ SetFrame(p, [f EXCEPT
                  !.replaced = storage[f.role],
                  !.retKeys = list,
                  !.retValue = <<WalletAddress(f.role, NewPathIndex(f.savedKeys),
                                               Last(list).key, f.networkId)>>,
                  !.pc = "done"])
    /\ UNCHANGED <<globalCCKey, created, ledger, lastRun, lastIssued, ncalls, tracked>>

\* CreateDeriveRejects with the new record saved before the derivation is
\* awaited.
CreateDeriveRejectsAfterSave(p) ==
    /\ Frame(p).pc = "derive" /\ Frame(p).op = "create"
    /\ SaveKeys(Frame(p).role, IssuedKeys(Frame(p).role, Frame(p).savedKeys))
    /\ Reject(p, "vault")
    /\ UNCHANGED <<globalCCKey, created, lastRun, lastIssued, ncalls, tracked>>

\* getPublicKeyFromSeed rejects: the call rejects before the save.
CreateDeriveRejects(p) ==
    /\ Frame(p).pc = "derive" /\ Frame(p).op = "create"
    /\ Reject(p, "vault")
    /\ UNCHANGED <<globalCCKey, created, storage, lastRun, lastIssued, ncalls, tracked>>

\* getPublicKeyFromSeed resolves but the save throws: nothing written, the
\* call rejects.
CreateSaveThrows(p) ==
    /\ Frame(p).pc = "derive" /\ Frame(p).op = "create"
    /\ Reject(p, "storage")
    /\ UNCHANGED <<globalCCKey, created, storage, lastRun, lastIssued, ncalls, tracked>>

\* ------------------------------------------------------------- environment

\* What is remembered of a returned discovery, to compare the next one with:
\* what it saw, returned and saved, and whether the Key Index it saved differs
\* from the one it started from.
RunOf(f) ==
    [valid |-> TRUE, role |-> f.role, networkId |-> f.networkId,
     evidence |-> f.evidence, retValue |-> f.retValue, retKeys |-> f.retKeys,
     overwrote |-> f.before[f.role] # SavedEntry(f.retKeys)]

\* The caller takes the call's outcome (the promise settles) and is free to
\* call again.
Return(p) ==
    /\ Frame(p).pc \in {"done", "failed"}
    /\ SetFrame(p, NoCall)
    /\ lastRun' = IF tracked /\ Frame(p).op = "restore" /\ Frame(p).pc = "done"
                  THEN RunOf(Frame(p)) ELSE lastRun
    /\ lastIssued' =
          IF Frame(p).pc # "done" THEN lastIssued
          ELSE IF Frame(p).op = "create"
          THEN [lastIssued EXCEPT ![Frame(p).role] = Last(Frame(p).retKeys).pathIndex]
          ELSE IF Frame(p).op = "restore"
          THEN [lastIssued EXCEPT ![Frame(p).role] = Undefined]
          ELSE lastIssued
    /\ UNCHANGED <<globalCCKey, created, storage, ledger, ncalls, tracked>>

\* The ledger changes between discoveries: its answers are open again.
LedgerChange ==
    /\ \A q \in AllProcs : ~IsRestore(call[q])
    /\ ledger.answers # <<>>
    /\ ledger' = [ledger EXCEPT !.answers = <<>>]
    /\ lastRun' = NoRun
    /\ UNCHANGED <<globalCCKey, created, storage, call, lastIssued, ncalls, tracked>>

\* ---------------------------------------------------------------- form events

handleChangeSecretPhraseInput(value) ==
    /\ form' = [form EXCEPT !.secretPhrase = value]
    /\ submitted' = "none"

handlePassphraseInput(value) ==
    /\ form' = [form EXCEPT !.passphraseError = "undefined",
                            !.isPassphraseValid = "undefined",
                            !.passphrase = value]
    /\ submitted' = "none"

handlePassphraseConfirmInput(value) ==
    /\ form' = [form EXCEPT !.passphraseConfirmError = "undefined",
                            !.isPassphraseConfirmValid = "undefined",
                            !.passphraseConfirm = value]
    /\ submitted' = "none"

\* The passphrase input loses focus.
checkPassphraseValid ==
    /\ form' = AfterPassphraseCheck(form)
    /\ submitted' = "none"

\* The confirmation input loses focus.
checkPassphraseConfirm ==
    /\ form' = AfterConfirmCheck(form)
    /\ submitted' = "none"

handleSubmit ==
    /\ form' = AfterSubmit(form)
    /\ submitted' = SubmitOutcome(form)

\* ------------------------------------------------------------------ dispatch

\* The map and key an action is addressed to, by its type's name: the map it
\* is named after, at the action's address or id.
SlotOf(action) ==
    LET id == getIdByAddressAssetType(action.address, action.assetType)
    IN  CASE action.type \in {"CachePendingTxList", "SetFetchingPendingTxList"}
                -> <<"pendingTxList", action.address>>
          [] action.type \in {"CacheTxList", "SetFetchingTxList"}
                -> <<"txList", action.address>>
          [] action.type \in {"CacheCountOfTxList", "SetFetchingCountOfTxList"}
                -> <<"countOfTxList", action.address>>
          [] action.type \in {"CacheTxListById", "SetFetchingTxListById"}
                -> <<"txListById", id>>
          [] action.type \in {"CacheCountOfTxListById",
                              "SetFetchingCountOfTxListById"}
                -> <<"countOfTxListById", id>>
          [] action.type \in {"UpdateBestBlockNumber",
                              "SetFetchingBestBlockNumber"}
                -> <<"bestBlockNumber", "">>

\* What is remembered of the actions addressed to a slot.
LogAt(slot) ==
    IF slot \in DOMAIN lastAddressed THEN lastAddressed[slot] ELSE NotAddressed

\* And after one more action addressed to it.
Addressed(log, action, now) ==
    IF action.type \in CacheTypes
    THEN [last |-> "Cache", data |-> action.payload, updatedAt |-> now]
    ELSE [log EXCEPT !.last = "SetFetching"]

\* The store dispatches an action: the state becomes chainReducer(state,
\* action).
Dispatch ==
    /\ dispatched < MaxDispatch
    /\ dispatched' = dispatched + 1
    /\ \E action \in Action, now \in Times :
          /\ action.type \in CacheTypes \/ now = 1
          /\ chain' = chainReducer(chain, action, now)
          /\ lastAddressed' =
                IF action.type = "Other" THEN lastAddressed
                ELSE [slot \in DOMAIN lastAddressed \cup {SlotOf(action)} |->
                         IF slot = SlotOf(action)
                         THEN Addressed(LogAt(slot), action, now)
                         ELSE lastAddressed[slot]]
    /\ UNCHANGED keystoreVars

\* ----------------------------------------------------------- specifications

Step(p) ==
    \/ getCCKey(p)
    \/ CreateResolves(p)
    \/ CreateRejects(p)
    \/ \E role \in AddressType, networkId \in NetworkId :
          RestoreAddresses(p, role, networkId)
    \/ RestoreBegin(p)
    \/ SeedHashRejects(p)
    \/ RestoreDerived(p)
    \/ RestoreDeriveRejects(p)
    \/ RestoreProbed(p)
    \/ RestoreProbedLast(p)
    \/ RestoreSaveThrows(p)
    \/ RestoreProbeRejects(p)
    \/ \E role \in AddressType, networkId \in NetworkId :
          CreateAddress(p, role, networkId)
    \/ CreateBegin(p)
    \/ CreateLoadThrows(p)
    \/ CreateDerived(p)
    \/ CreateDeriveRejects(p)
    \/ CreateSaveThrows(p)
    \/ Return(p)

\* One caller: calls never overlap.
Next ==
    /\ (\E p \in MainProcs : Step(p)) \/ LedgerChange
    /\ UNCHANGED <<chainVars, formVars>>

Spec == Init /\ [][Next]_vars

\* Two callers: calls overlap at every await, and the ledger is not followed.
ConcInit ==
    /\ globalCCKey = NoInstance
    /\ created = 0
    /\ storage = [r \in AddressType |-> NullEntry]
    /\ ledger = [role |-> Platform, answers |-> <<>>]
    /\ call = [p \in AllProcs |-> NoCall]
    /\ lastRun = NoRun
    /\ lastIssued = [r \in AddressType |-> Undefined]
    /\ ncalls = 0
    /\ tracked = FALSE
    /\ ChainInit
    /\ FormInit

ConcNext ==
    /\ \E p \in AllProcs : Step(p)
    /\ UNCHANGED <<chainVars, formVars>>

ConcSpec == ConcInit /\ [][ConcNext]_vars

\* What a caller that only issues addresses does: Step without discovery.
IssuanceStep(p) ==
    \/ CreateResolves(p)
    \/ CreateRejects(p)
    \/ SeedHashRejects(p)
    \/ \E role \in AddressType, networkId \in NetworkId :
          CreateAddress(p, role, networkId)
    \/ CreateBegin(p)
    \/ CreateLoadThrows(p)
    \/ CreateDerived(p)
    \/ CreateDeriveRejects(p)
    \/ CreateSaveThrows(p)
    \/ Return(p)

\* Two callers, the second one only issuing: every issuance of the second
\* overlaps at every await with whatever the first is calling.
RaceNext ==
    /\ (\E p \in MainProcs : Step(p)) \/ IssuanceStep("p2")
    /\ UNCHANGED <<chainVars, formVars>>

RaceSpec == ConcInit /\ [][RaceNext]_vars

\* The reducer alone: actions dispatched one after another.
ChainNext == Dispatch /\ UNCHANGED formVars

ChainSpec == Init /\ [][ChainNext]_vars

\* The form alone: the user's events one after another.
FormNext ==
    /\ \/ \E value \in Texts : handleChangeSecretPhraseInput(value)
       \/ \E value \in Texts : handlePassphraseInput(value)
       \/ \E value \in Texts : handlePassphraseConfirmInput(value)
       \/ checkPassphraseValid
       \/ checkPassphraseConfirm
       \/ handleSubmit
    /\ UNCHANGED <<keystoreVars, chainVars>>

FormSpec == Init /\ [][FormNext]_vars

\* ------------------------------------------------------------------ claims

\* A call of `op` that has returned normally and not yet been taken.
Returned(f, op) == f.op = op /\ f.pc = "done"

PathIndexes(list) == [i \in 1..Len(list) |-> list[i].pathIndex]

\* <<0, 1, ..., last>>
UpTo(last) == [i \in 1..(last + 1) |-> i - 1]

Max(S) == CHOOSE m \in S : \A x \in S : x <= m

\* The candidate addresses discovery derives for the indices 0..last.
Candidates(role, last, networkId) ==
    [i \in 1..(last + 1) |->
        WalletAddress(role, i - 1, RestoredKeyAt(role, i - 1), networkId)]

\* C1: a discovery that saw usage at index 0 only returns exactly the address
\* of index 0 and persists exactly the key record with pathIndex 0.
C1_UsageAtZeroOnly ==
    \A p \in AllProcs :
        Returned(call[p], "restore") /\ call[p].evidence = {0}
        => /\ call[p].retValue = Candidates(call[p].role, 0, call[p].networkId)
           /\ storage[call[p].role].present
           /\ PathIndexes(storage[call[p].role].keys) = <<0>>

\* C2: a discovery whose greatest used index L is at least 1 returns the
\* candidate addresses of 0..L in increasing order and persists the key
\* records with pathIndex 0..L, gaps below L included.
C2_TruncatedAtLastUsed ==
    \A p \in AllProcs :
        LET f == call[p]
        IN  Returned(f, "restore") /\ f.evidence # {} /\ Max(f.evidence) >= 1
            => /\ f.retValue = Candidates(f.role, Max(f.evidence), f.networkId)
               /\ storage[f.role].present
               /\ PathIndexes(storage[f.role].keys) = UpTo(Max(f.evidence))

\* C2's case: usage at {2, 7} only, eight addresses returned.
C2_Witness ==
    \E p \in AllProcs :
        /\ Returned(call[p], "restore")
        /\ call[p].evidence = {2, 7}
        /\ Len(call[p].retValue) = 8
        /\ Len(storage[call[p].role].keys) = 8

\* C3: a discovery that saw no usage at any of the restoringCheckingRange
\* indices returns no address and leaves the role's Key Index saved and empty,
\* whatever it held before the call.
C3_NoUsageRestoresNothing ==
    \A p \in AllProcs :
        LET f == call[p]
        IN  Returned(f, "restore") /\ f.evidence = {}
            => /\ f.currentPath = restoringCheckingRange
               /\ f.retValue = <<>>
               /\ storage[f.role] = SavedEntry(<<>>)

\* C3's case: no usage seen, and the Key Index held records before the call.
C3_Witness ==
    \E p \in AllProcs :
        /\ Returned(call[p], "restore")
        /\ call[p].evidence = {}
        /\ Len(call[p].before[call[p].role].keys) > 0
        /\ storage[call[p].role].keys = <<>>

\* C4: an issuance called on an empty or absent Key Index stores exactly one
\* record, with pathIndex 1, and returns one address named with index 1.
C4_FirstIssuedIndexIsOne ==
    \A p \in AllProcs :
        LET f == call[p]
        IN  Returned(f, "create") /\ ~NonEmpty(f.before[f.role])
            => /\ storage[f.role].present
               /\ PathIndexes(storage[f.role].keys) = <<1>>
               /\ Len(f.retValue) = 1
               /\ f.retValue[1].name = AddressName(f.role, 1)

\* C4's case: issuance on a Key Index that was saved empty (by a discovery
\* that found nothing), for the asset role.
C4_Witness ==
    \E p \in AllProcs :
        /\ Returned(call[p], "create")
        /\ call[p].role = Asset
        /\ call[p].before[Asset] = SavedEntry(<<>>)
        /\ Len(storage[Asset].keys) = 1

\* C5: an issuance called on a non-empty Key Index appends a record whose
\* pathIndex, and returns an address whose name index, is exactly one greater
\* than the last stored pathIndex.
C5_NextAfterLast ==
    \A p \in AllProcs :
        LET f == call[p]
        IN  Returned(f, "create") /\ NonEmpty(f.before[f.role])
            => /\ Last(storage[f.role].keys).pathIndex
                    = Last(f.before[f.role].keys).pathIndex + 1
               /\ f.retValue[1].name
                    = AddressName(f.role, Last(f.before[f.role].keys).pathIndex + 1)

\* C6: with no discovery in between, an issuance yields a pathIndex strictly
\* greater than the previous issuance's for the role, and strictly greater
\* than every pathIndex in the Key Index at the time of the call.
C6_IssuanceMonotonic ==
    \A p \in AllProcs :
        LET f == call[p]
            issued == Last(f.retKeys).pathIndex
        IN  Returned(f, "create")
            => /\ \A i \in 1..Len(f.before[f.role].keys) :
                     issued > f.before[f.role].keys[i].pathIndex
               /\ lastIssued[f.role] # Undefined => issued > lastIssued[f.role]

\* C6's case: a second issuance for a role, after a returned first one.
C6_Witness ==
    \E p \in AllProcs :
        /\ Returned(call[p], "create")
        /\ lastIssued[call[p].role] # Undefined
        /\ Len(call[p].before[call[p].role].keys) > 0

\* The awaits a call can be suspended at.
Suspended == {"creating", "seedHash", "derive", "probe"}

\* C7: at most one vault instance is ever created or being created, and all
\* callers that hold a handle hold the same one, also when first callers
\* overlap.
C7_OneVaultInstance ==
    /\ Cardinality({p \in AllProcs : call[p].pc = "creating"})
          + (IF globalCCKey # NoInstance THEN 1 ELSE 0) <= 1
    /\ \A p, q \in AllProcs :
          call[p].ccKey # NoInstance /\ call[q].ccKey # NoInstance
          => call[p].ccKey = call[q].ccKey

\* C8: a discovery in which a vault or ledger call fails rejects (the failed
\* index is not passed over), returns no address list, and has written
\* nothing: the Key Index is as it was before the call, and stays so until
\* the write that follows the last probe.
C8_DiscoveryAllOrNothing ==
    \A p \in AllProcs :
        LET f == call[p]
        IN  f.op = "restore"
            => /\ f.error # "none" => f.pc = "failed"
               /\ f.pc = "failed" => f.retValue = <<>> /\ storage = f.before
               /\ f.pc \in Suspended => storage = f.before

\* C8's case: the ledger probe failed in a discovery for a role whose Key
\* Index held records.
C8_Witness ==
    \E p \in AllProcs :
        /\ call[p].op = "restore" /\ call[p].pc = "failed"
        /\ call[p].error = "probe"
        /\ NonEmpty(call[p].before[call[p].role])
        /\ storage = call[p].before

\* C9: an issuance in which reading the Key Index, the derivation or the save
\* fails rejects, returns no address, and leaves the Key Index as it was.
C9_IssuanceAllOrNothing ==
    \A p \in AllProcs :
        LET f == call[p]
        IN  f.op = "create"
            => /\ f.error # "none" => f.pc = "failed"
               /\ f.pc = "failed" => f.retValue = <<>> /\ storage = f.before
               /\ f.pc \in Suspended => storage = f.before

\* C9's case: the derivation failed in an issuance for a role whose Key Index
\* held records.
C9_Witness ==
    \E p \in AllProcs :
        /\ call[p].op = "create" /\ call[p].pc = "failed"
        /\ call[p].error = "vault"
        /\ NonEmpty(call[p].before[call[p].role])
        /\ storage = call[p].before

\* C10: a discovery that saw the same usage evidence as the previous returned
\* discovery for the role and network returns the same address sequence and
\* persists the same Key Index, whatever the Key Index held before each run.
C10_DiscoveryDeterministic ==
    \A p \in AllProcs :
        LET f == call[p]
        IN  /\ Returned(f, "restore")
            /\ lastRun.valid
            /\ lastRun.role = f.role
            /\ lastRun.networkId = f.networkId
            /\ lastRun.evidence = f.evidence
            => /\ f.retValue = lastRun.retValue
               /\ f.retKeys = lastRun.retKeys
               /\ storage[f.role] = SavedEntry(lastRun.retKeys)

\* C10's case: two discoveries with the same evidence, some of it usage, that
\* started from different Key Indexes: the first from one it overwrote, the
\* second from the one the first saved.
C10_Witness ==
    \E p \in AllProcs :
        /\ Returned(call[p], "restore")
        /\ lastRun.valid
        /\ lastRun.role = call[p].role
        /\ lastRun.evidence = call[p].evidence
        /\ Max(call[p].evidence \cup {0}) >= 1
        /\ lastRun.overwrote
        /\ call[p].before[call[p].role] = SavedEntry(lastRun.retKeys)

\* The greatest index a path is built for: discovery reaches
\* restoringCheckingRange - 1 and each issuance moves two past the last.
MaxPathIndex == restoringCheckingRange + 2 * MaxCalls

\* The path of the getPublicKeyFromSeed call a frame is suspended at.
DerivationPath(f) ==
    IF f.op = "restore" THEN PathFor(f.role, f.currentPath)
    ELSE PathFor(f.role, IssuanceDerivationIndex(f.role, f.savedKeys))

\* The index that path is built from.
DerivationIndex(f) ==
    IF f.op = "restore" THEN f.currentPath
    ELSE IssuanceDerivationIndex(f.role, f.savedKeys)

\* The path of every (role, index) in reach.
Paths == [r \in AddressType |-> [i \in 0..MaxPathIndex |-> PathFor(r, i)]]

\* Distinct (role, index) pairs have distinct paths, over every index in reach.
PathsInjective ==
    \A r, s \in AddressType, i, j \in 0..MaxPathIndex :
        Paths[r][i] = Paths[s][j] => r = s /\ i = j

\* C11: the derivation path is injective in (role, index): paths of distinct
\* indices of a role differ, and the platform and the asset path of an index
\* differ; the path a discovery or an issuance passes to the vault is the
\* path of its own (role, index) and of no other pair.
C11_PathInjective ==
    /\ PathsInjective
    /\ \A p \in AllProcs :
          LET f == call[p]
          IN  f.pc = "derive"
              => /\ DerivationIndex(f) \in 0..MaxPathIndex
                 /\ LET path == DerivationPath(f)
                    IN  \A r \in AddressType, i \in 0..MaxPathIndex :
                            Paths[r][i] = path
                            <=> r = f.role /\ i = DerivationIndex(f)

\* C11's case: an issuance deriving at a two-digit index (11, after a
\* discovery that kept index 9) whose digits start like a one-digit index.
C11_Witness ==
    \E p \in AllProcs :
        /\ call[p].op = "create" /\ call[p].pc = "derive"
        /\ DerivationIndex(call[p]) = 11
        /\ DerivationPath(call[p]) = "m/44'/3276/0'/0/11"
        /\ DerivationPath(call[p]) # PathFor(call[p].role, 1)

\* C12: a discovery that completes without error has made exactly
\* restoringCheckingRange ledger probes, one for each index 0..9 in increasing
\* order, whatever the probes answered: it ends after the probe of index 9
\* and at no earlier one.
C12_AlwaysFullScan ==
    \A p \in AllProcs :
        LET f == call[p]
        IN  /\ Returned(f, "restore")
               => /\ f.probes = UpTo(restoringCheckingRange - 1)
                  /\ Len(f.probes) = restoringCheckingRange
                  /\ f.currentPath = restoringCheckingRange
            /\ f.op = "restore" /\ f.pc \in Suspended
               => Len(f.probes) <= restoringCheckingRange

\* C12's case: usage at index 3 only, so unused indices follow a used one, and
\* all ten indices were probed.
C12_Witness ==
    \E p \in AllProcs :
        /\ Returned(call[p], "restore")
        /\ call[p].evidence = {3}
        /\ call[p].probes = <<0, 1, 2, 3, 4, 5, 6, 7, 8, 9>>

\* The indices whose probe has returned in a discovery: the loop body pushes
\* a key record when it resumes from the probe.
ProbesReturned(f) == {f.keys[i].pathIndex : i \in 1..Len(f.keys)}

\* C13: within one discovery at most one derivation or probe is outstanding
\* at any time, and the derivation of index i+1 is outstanding only after the
\* probes of all indices up to i have returned.
C13_ProbesSequential ==
    \A p \in AllProcs :
        LET f == call[p]
        IN  f.op = "restore"
            => /\ Cardinality(f.inflight) <= 1
               /\ \A req \in f.inflight :
                     /\ req.index = f.currentPath
                     /\ ProbesReturned(f) = 0..(req.index - 1)
                     /\ req.kind = "probe" => Last(f.probes) = req.index
                     /\ req.kind = "derive"
                        => f.probes = UpTo(req.index - 1)
               /\ f.pc \in {"derive", "probe"} <=> f.inflight # {}

\* C13's case: the derivation of index 5 is outstanding and the probes of
\* 0..4 have all returned.
C13_Witness ==
    \E p \in AllProcs :
        /\ call[p].op = "restore"
        /\ call[p].inflight = {Request("derive", 5)}
        /\ ProbesReturned(call[p]) = 0..4

\* A call that has read the Key Index it builds on (issuance reads it when
\* getFirstSeedHash resolves) and not yet been taken by its caller.
HasRead(f) == f.op = "create" /\ f.pc \in {"derive", "done"}

\* C14: the Key Index has no concurrent-write protection.  Whenever two
\* overlapping issuances for a role have read the same Key Index they
\* allocate the same pathIndex, and once both have completed the Key Index
\* holds what was read plus one record only; and whenever an issuance
\* completes after an overlapping discovery for the role has saved its
\* result, the Key Index is the list built from what the issuance read
\* before, the discovery's records gone.
C14_LostUpdate ==
    \A p, q \in AllProcs :
        LET f == call[p]
            g == call[q]
        IN  /\ p # q /\ HasRead(f) /\ HasRead(g) /\ f.role = g.role
               /\ f.savedKeys = g.savedKeys
               => /\ NewPathIndex(f.savedKeys) = NewPathIndex(g.savedKeys)
                  /\ f.pc = "done" /\ g.pc = "done"
                     => /\ Last(f.retKeys).pathIndex = Last(g.retKeys).pathIndex
                        /\ Len(storage[f.role].keys)
                              = Len(f.savedKeys.keys) + 1
            /\ p # q /\ Returned(f, "create") /\ Returned(g, "restore")
               /\ f.role = g.role
               /\ f.replaced = SavedEntry(g.retKeys)
               /\ f.savedKeys = g.replaced
               => /\ storage[f.role] = SavedEntry(IssuedKeys(f.role, f.savedKeys))
                  /\ Len(storage[f.role].keys) = Len(f.savedKeys.keys) + 1

\* C14's case: two overlapping issuances for the asset role read the same
\* (absent) Key Index, both were given pathIndex 1 and both have completed:
\* one record is stored.
C14_Witness ==
    /\ Returned(call["p1"], "create") /\ Returned(call["p2"], "create")
    /\ call["p1"].role = Asset /\ call["p2"].role = Asset
    /\ call["p1"].savedKeys = call["p2"].savedKeys
    /\ call["p1"].retValue[1].name = "A-address 1"
    /\ call["p2"].retValue[1].name = "A-address 1"
    /\ PathIndexes(storage[Asset].keys) = <<1>>

\* C14's second case: a discovery saved six records between an issuance's
\* read and its save, and the issuance's save left one record built from the
\* absent Key Index it had read.
C14_DiscoveryOverwritten ==
    \E p, q \in AllProcs :
        /\ Returned(call[p], "create") /\ Returned(call[q], "restore")
        /\ call[p].role = call[q].role
        /\ Len(call[q].retKeys) = 6
        /\ call[p].replaced = SavedEntry(call[q].retKeys)
        /\ call[p].savedKeys = NullEntry
        /\ PathIndexes(storage[call[p].role].keys) = <<1>>

\* A list of key records ordered by strictly increasing pathIndex.
StrictlyIncreasing(list) ==
    \A i \in 1..(Len(list) - 1) : list[i].pathIndex < list[i + 1].pathIndex

\* C15: after any sequence and any interleaving of discovery and issuance
\* calls each role's persisted Key Index is ordered by strictly increasing
\* pathIndex: no two records share a pathIndex.
C15_KeyIndexStrictlyIncreasing ==
    \A r \in AddressType :
        /\ StrictlyIncreasing(storage[r].keys)
        /\ \A i, j \in 1..Len(storage[r].keys) :
              storage[r].keys[i].pathIndex = storage[r].keys[j].pathIndex
              => i = j

\* C15's case: an issuance that overlapped a discovery read the five records
\* the discovery saved and added its own after them.
C15_Witness ==
    \E p, q \in AllProcs :
        /\ Returned(call[p], "create") /\ Returned(call[q], "restore")
        /\ call[p].role = call[q].role
        /\ PathIndexes(call[q].retKeys) = <<0, 1, 2, 3, 4>>
        /\ PathIndexes(storage[call[p].role].keys) = <<0, 1, 2, 3, 4, 6>>

\* The fingerprint of the public key derived at the path of (role, index),
\* with the passphrase or without it.
FingerprintsAt(role, index) ==
    {blake160(getPublicKeyFromSeed(PathFor(role, index), passphrase)) :
        passphrase \in {StoredPassphrase, NoPassphrase}}

\* C16: every key record stored by discovery or issuance has the fingerprint
\* of the public key derived at the path of (its role's Key Index, its
\* pathIndex), and the address an issuance returns under the name of the new
\* index carries the key derived at the path of that index.
C16_KeysDerivedAtOwnIndex ==
    /\ \A r \in AddressType :
          \A i \in 1..Len(storage[r].keys) :
              storage[r].keys[i].key
                  \in FingerprintsAt(r, storage[r].keys[i].pathIndex)
    /\ \A p \in AllProcs :
          LET f == call[p]
          IN  Returned(f, "create")
              => /\ f.retValue[1].name
                        = AddressName(f.role, Last(f.retKeys).pathIndex)
                 /\ f.retValue[1].address.payload
                        \in FingerprintsAt(f.role, Last(f.retKeys).pathIndex)

\* C17: every record saved in the platform Key Index has type Platform and
\* every record saved in the asset Key Index has type Asset.
C17_RecordsCarryRole ==
    \A r \in AddressType :
        \A i \in 1..Len(storage[r].keys) : storage[r].keys[i].type = r

\* The other role.
OtherRole(role) == IF role = Platform THEN Asset ELSE Platform

\* C18: a successful discovery replaces the role's Key Index wholesale:
\* afterwards it is exactly the truncated list this run computed, no record
\* it held before is kept or added to, and the other role's Key Index is as
\* it was.
C18_DiscoveryReplacesWholesale ==
    \A p \in AllProcs :
        LET f == call[p]
        IN  Returned(f, "restore")
            => /\ f.replaced = f.before[f.role]
               /\ f.retKeys = Truncate(f.keys, f.lastValid)
               /\ storage[f.role] = SavedEntry(f.retKeys)
               /\ \A i \in 1..Len(f.retKeys) :
                     f.retKeys[i]
                        = StoredKey(f.role, i - 1, RestoredKeyAt(f.role, i - 1))
               /\ storage[OtherRole(f.role)] = f.before[OtherRole(f.role)]

\* C18's case: the Key Index held an issued record (pathIndex 1) that the
\* discovery's three records do not contain.
C18_Witness ==
    \E p \in AllProcs :
        LET f == call[p]
        IN  /\ Returned(f, "restore")
            /\ PathIndexes(f.before[f.role].keys) = <<1>>
            /\ PathIndexes(storage[f.role].keys) = <<0, 1, 2>>
            /\ \A i \in 1..3 : storage[f.role].keys[i] # f.before[f.role].keys[1]

\* C19: a successful issuance appends exactly one record: afterwards the
\* role's Key Index is the one read at the start of the call with the new
\* record at its end, the other role's Key Index is as it was, and the call
\* has made no ledger probe.
C19_IssuanceAppendsOne ==
    \A p \in AllProcs :
        LET f == call[p]
        IN  /\ Returned(f, "create")
               => /\ f.savedKeys = f.before[f.role]
                  /\ Len(storage[f.role].keys) = Len(f.before[f.role].keys) + 1
                  /\ SubSeq(storage[f.role].keys, 1, Len(f.before[f.role].keys))
                        = f.before[f.role].keys
                  /\ Last(storage[f.role].keys).pathIndex
                        = NewPathIndex(f.before[f.role])
                  /\ storage[OtherRole(f.role)] = f.before[OtherRole(f.role)]
            /\ f.op = "create"
               => /\ f.probes = <<>>
                  /\ f.pc # "probe"
                  /\ \A req \in f.inflight : req.kind # "probe"

\* C19's case: an issuance on a Key Index of four restored records.
C19_Witness ==
    \E p \in AllProcs :
        LET f == call[p]
        IN  /\ Returned(f, "create")
            /\ PathIndexes(f.before[f.role].keys) = <<0, 1, 2, 3>>
            /\ PathIndexes(storage[f.role].keys) = <<0, 1, 2, 3, 5>>
            /\ f.probes = <<>>

\* The entry of the chain state at a slot.
EntryAt(state, slot) ==
    IF slot[1] = "bestBlockNumber" THEN state.bestBlockNumber
    ELSE Lookup(state[slot[1]], slot[2])

\* The slots of the six maps that have a SetFetching and a Cache/Update
\* action.
FetchedSlots == {slot \in Slots : slot[1] # "pendingTxListById"}

\* C20: in each of pendingTxList, txList, countOfTxList, txListById,
\* countOfTxListById and bestBlockNumber an entry follows the fetch protocol:
\* isFetching is true exactly when the last action addressed to its map and
\* key was the SetFetching action and false when it was the Cache/Update
\* action; SetFetching keeps the entry's data and updatedAt, Cache/Update
\* sets data to the action's payload.
C20_FetchProtocol ==
    \A slot \in FetchedSlots :
        LET entry == EntryAt(chain, slot)
            log == LogAt(slot)
        IN  /\ log.last = "none" <=> ~entry.defined
            /\ log.last = "SetFetching" <=> entry.defined /\ entry.isFetching
            /\ log.last = "Cache" <=> entry.defined /\ ~entry.isFetching
            /\ entry.data = log.data
            /\ entry.updatedAt = log.updatedAt

\* C20's case: an id's count was cached (payload 2 at time 2) and then set
\* fetching: the entry is fetching and still holds that payload and time.
C20_Witness ==
    \E id \in Ids :
        /\ LogAt(<<"countOfTxListById", id>>)
              = [last |-> "SetFetching", data |-> 2, updatedAt |-> 2]
        /\ Lookup(chain.countOfTxListById, id)
              = [defined |-> TRUE, data |-> 2, isFetching |-> TRUE,
                 updatedAt |-> 2]

\* The slots at which two chain states differ.
ChangedSlots(before, after) ==
    {slot \in Slots : EntryAt(after, slot) # EntryAt(before, slot)}

\* A chain state with the entry at one slot set and nothing else touched.
Replaced(state, slot, entry) ==
    IF slot[1] = "bestBlockNumber"
    THEN [state EXCEPT !.bestBlockNumber = entry]
    ELSE [state EXCEPT ![slot[1]] =
             [k \in DOMAIN @ \cup {slot[2]} |->
                 IF k = slot[2] THEN entry ELSE @[k]]]

\* The actions and clock readings that differ in what the reducer reads.
Dispatches ==
    {d \in Action \X Times : d[1].type \in CacheTypes \/ d[2] = 1}

\* C21: every chainReducer action changes at most one entry of one map, the
\* entry at the action's own key in the action's own map: all other keys of
\* that map, all other maps and bestBlockNumber are as before, an action of
\* an unhandled type gives the state back unchanged, and pendingTxListById
\* is never changed.
C21_OneEntryPerAction ==
    /\ chain.pendingTxListById = chainInitState.pendingTxListById
    /\ \A d \in Dispatches :
          LET action == d[1]
              after == chainReducer(chain, action, d[2])
          IN  IF action.type = "Other" THEN after = chain
              ELSE /\ SlotOf(action)[1] # "pendingTxListById"
                   /\ after = Replaced(chain, SlotOf(action),
                                       EntryAt(after, SlotOf(action)))

\* C21's case: both addresses have a transaction list and bestBlockNumber is
\* set; the last Cache for the second address left the first address's entry
\* and bestBlockNumber as they were cached.
C21_Witness ==
    /\ dispatched = 3
    /\ LogAt(<<"txList", "tcaq1">>)
          = [last |-> "Cache", data |-> 1, updatedAt |-> 1]
    /\ LogAt(<<"txList", "tcaq2">>)
          = [last |-> "Cache", data |-> 2, updatedAt |-> 2]
    /\ LogAt(<<"bestBlockNumber", "">>).last = "Cache"
    /\ Lookup(chain.txList, "tcaq1") = Cached(1, 1)
    /\ Lookup(chain.txList, "tcaq2") = Cached(2, 2)
    /\ chain.bestBlockNumber.defined
    /\ DOMAIN chain.txList = Address
    /\ ChangedSlots(chain, chainReducer(chain,
          [type |-> "CacheTxList", address |-> "tcaq2", assetType |-> "00a1",
           payload |-> 1], 1)) = {<<"txList", "tcaq2">>}

\* The number of whitespace-separated words of a text.
WordCount(text) == Len(Runs(text))

\* C22: a submit passes all of its checks only when the passphrase has at
\* least 8 characters, equals its confirmation, and the entered secret phrase
\* has exactly twelve whitespace-separated words; a submit stopped by the
\* passphrase check leaves isPassphraseValid false with its message, and one
\* stopped by the confirmation check leaves isPassphraseConfirmValid false
\* with its message.
C22_SubmitValidates ==
    /\ submitted = "passed" =>
          /\ Len(form.passphrase) >= 8
          /\ form.passphrase = form.passphraseConfirm
          /\ WordCount(form.secretPhrase) = 12
    /\ submitted = "passphraseInvalid" =>
          /\ form.isPassphraseValid = "false"
          /\ form.passphraseError = "Minimum length is 8 characters"
    /\ submitted = "confirmMismatch" =>
          /\ form.isPassphraseConfirmValid = "false"
          /\ form.passphraseConfirmError = "Password does not match!"

\* What the code's submit does check: the passphrase, its confirmation, and
\* the words of the passphrase. The secret phrase is not read.
SubmitChecksPassphraseWords ==
    /\ submitted = "passed" =>
          /\ Len(form.passphrase) >= 8
          /\ form.passphrase = form.passphraseConfirm
          /\ WordCount(form.passphrase) = 12
    /\ submitted \in {"passphraseInvalid", "confirmMismatch", "notTwelveWords"} =>
          \/ Len(form.passphrase) < 8
          \/ form.passphrase # form.passphraseConfirm
          \/ WordCount(form.passphrase) # 12
    /\ submitted = "passphraseInvalid" =>
          /\ form.isPassphraseValid = "false"
          /\ form.passphraseError = "Minimum length is 8 characters"
    /\ submitted = "confirmMismatch" =>
          /\ form.isPassphraseConfirmValid = "false"
          /\ form.passphraseConfirmError = "Password does not match!"

\* A submit with a twelve-word secret phrase and a valid, confirmed passphrase
\* that is stopped at the word count.
SecretPhraseOfTwelveStopped ==
    /\ submitted = "notTwelveWords"
    /\ WordCount(form.secretPhrase) = 12
    /\ Len(form.passphrase) >= 8
    /\ form.passphrase = form.passphraseConfirm

====
